---- MODULE Spec2Model ----
(***************************************************************************)
(* LazyThingPreview (openlibrary/plugins/openlibrary/js/                   *)
(* lazy-thing-preview.js): a queue of pending preview requests, a cache of *)
(* fetched things, and a debounced render() that looks the queued keys up  *)
(* with one search request per kind of key and hands every queue entry    *)
(* its thing.                                                              *)
(*                                                                         *)
(* A string is modelled as the sequence of its tokens, the '/' separators  *)
(* included: "/works/OL1W" is <<"/", "works", "/", "OL1W">>.  A render      *)
(* function is identified with the number of the push() call that named   *)
(* it.  The value undefined is the record Undefined; where a key is        *)
(* expected, NoKey; where a render function is expected, NoFn.             *)
(*                                                                         *)
(* debounce (openlibrary/plugins/openlibrary/js/team.js): the function     *)
(* debounced() it returns, its timer and the calls it makes of func, under *)
(* SpecDebounce.                                                           *)
(*                                                                         *)
(* The publish-date validator (openlibrary/plugins/openlibrary/js/         *)
(* validate.js), applied to what is typed into a form field, under         *)
(* SpecValidate.  The value of the field is the sequence of its            *)
(* characters.                                                             *)
(*                                                                         *)
(* The barcode scanner page (unnamed/part_001): the handler of             *)
(* Quagga.onDetected with lastResult and confirmation_list, under          *)
(* SpecScan.  A code is the sequence of its digits.                        *)
(*                                                                         *)
(* The onboarding card (openlibrary/plugins/openlibrary/js/                *)
(* onboardingCard.js): the card with its overlay and the slider inside it, *)
(* under SpecCard.                                                         *)
(*                                                                         *)
(* MyBooksDropper.loadLists (openlibrary/plugins/openlibrary/js/my-books/  *)
(* MyBooksDropper.js) with its loading animation, under SpecDropper.       *)
(***************************************************************************)
EXTENDS Integers, Sequences, FiniteSets, TLC

\* ------------------------------------------------------------------ bounds
MaxRequests == 2      \* push() calls in one behaviour of Spec
MaxFlights == 2       \* render() calls suspended at an await at one time
TicksPerWindow == 2   \* clock steps that make up one debounce window
MaxInvocations == 4   \* calls of debounced() in one behaviour of SpecDebounce
MaxDateLen == 4       \* characters typed into the publish-date field
MaxDetections == 4    \* codes the scanner detects in one behaviour of SpecScan
MaxSlides == 4        \* .slide elements in the onboarding card, at most
MaxAnimationTicks == 8  \* runs of the loading animation's interval callback

\* --------------------------------------------------------------- constants
Window == 100         \* debounce(this.render.bind(this), 100)
Threshold == 100      \* team.js: debounce(func, threshold=100, execAsap=false)

WorksPrefix == <<"/", "works", "/">>
BooksPrefix == <<"/", "books", "/">>
AuthorsPrefix == <<"/", "authors", "/">>

WorkKey == <<"/", "works", "/", "OL1W">>
EditionKey == <<"/", "books", "/", "OL2M">>
AuthorKey == <<"/", "authors", "/", "OL3A">>
OtherKey == <<"/", "subjects", "/", "art">>

\* the keys the page's placeholders carry
PageKeys == {WorkKey, EditionKey, AuthorKey, OtherKey}

Undefined == [type |-> "undefined"]

\* el.dataset.key of a placeholder that has no data-key attribute: undefined,
\* which is not a string (no string has this token)
NoKey == <<"undefined">>

\* window[render_fn_name] when the page defines no such function: undefined
NoFn == 0

NoTimer == -1

\* ------------------------------------------------- the search engine's data
\* the edition document a work document embeds in editions.docs
EditionDoc ==
    [key |-> EditionKey, type |-> "edition", title |-> "Emma", subtitle |-> "A Novel"]

\* a document of /search.json; withEdition: editions.docs holds the edition
WorkDoc(withEdition) ==
    [key |-> WorkKey, type |-> "work", title |-> "Emma", subtitle |-> "",
     author_name |-> <<"Jane Austen">>, edition_count |-> 2,
     editions |-> [docs |-> IF withEdition THEN <<EditionDoc>> ELSE <<>>]]

\* a document of /search/authors.json: its key comes without the prefix
AuthorDoc ==
    [key |-> <<"OL3A">>, type |-> "author", name |-> "Jane Austen"]

\* ------------------------------------------------------------ string helpers
\* String.prototype.startsWith
StartsWith(str, prefix) ==
    /\ Len(str) >= Len(prefix)
    /\ SubSeq(str, 1, Len(prefix)) = prefix

\* key.split('/').pop(): what follows the last '/'
RECURSIVE SplitPop(_)
SplitPop(str) ==
    IF str = <<>> THEN <<>>
    ELSE IF str[Len(str)] = "/" THEN <<>>
    ELSE SplitPop(SubSeq(str, 1, Len(str) - 1)) \o <<str[Len(str)]>>

\* Array.prototype.map
MapSeq(Op(_), s) == [i \in 1..Len(s) |-> Op(s[i])]

\* book.subtitle ? `${book.title}: ${book.subtitle}` : book.title
FullTitle(doc) ==
    IF doc.subtitle # "" THEN <<doc.title, ": ", doc.subtitle>> ELSE <<doc.title>>

\* --------------------------------------------------------------- getThings
\* the kind of a key, by its prefix
DomainOf(key) ==
    IF StartsWith(key, WorksPrefix) THEN "work"
    ELSE IF StartsWith(key, BooksPrefix) THEN "edition"
    ELSE IF StartsWith(key, AuthorsPrefix) THEN "author"
    ELSE "none"

\* variant of Batches: a search request for every key, nothing bundled
BatchesPerKey(keys) ==
    MapSeq(LAMBDA key : [domain |-> DomainOf(key),
                         terms |-> IF DomainOf(key) = "edition"
                                   THEN <<SplitPop(key)>> ELSE <<key>>],
           SelectSeq(keys, LAMBDA key : DomainOf(key) # "none"))

\* variant of Batches: keys with no known prefix go into the work query
BatchesUnfiltered(keys) ==
    LET workKeys == SelectSeq(keys, LAMBDA key: ~StartsWith(key, BooksPrefix)
                                                /\ ~StartsWith(key, AuthorsPrefix))
        editionKeys == SelectSeq(keys, LAMBDA key: StartsWith(key, BooksPrefix))
        authorKeys == SelectSeq(keys, LAMBDA key: StartsWith(key, AuthorsPrefix))
    IN  (IF Len(workKeys) > 0
            THEN <<[domain |-> "work", terms |-> workKeys]>> ELSE <<>>)
        \o (IF Len(editionKeys) > 0
            THEN <<[domain |-> "edition", terms |-> MapSeq(SplitPop, editionKeys)]>>
            ELSE <<>>)
        \o (IF Len(authorKeys) > 0
            THEN <<[domain |-> "author", terms |-> authorKeys]>> ELSE <<>>)

\* the search requests getThings(keys) makes, in the order it makes them:
\* one per kind of key that has at least one key; terms: the keys of its query
Batches(keys) ==
    LET workKeys == SelectSeq(keys, LAMBDA key: StartsWith(key, WorksPrefix))
        editionKeys == SelectSeq(keys, LAMBDA key: StartsWith(key, BooksPrefix))
        authorKeys == SelectSeq(keys, LAMBDA key: StartsWith(key, AuthorsPrefix))
    IN  (IF Len(workKeys) > 0
            THEN <<[domain |-> "work", terms |-> workKeys]>> ELSE <<>>)
        \o (IF Len(editionKeys) > 0
            THEN <<[domain |-> "edition", terms |-> MapSeq(SplitPop, editionKeys)]>>
            ELSE <<>>)
        \o (IF Len(authorKeys) > 0
            THEN <<[domain |-> "author", terms |-> authorKeys]>> ELSE <<>>)

\* is term one of the terms of the query
Asked(batch, term) == \E i \in 1..Len(batch.terms) : batch.terms[i] = term

\* resp.docs: the responses the search engine can give to a request.  It
\* returns documents that match the query, not necessarily all of them; a
\* query on edition_key returns the work, with the edition embedded.
Responses(batch) ==
    {<<>>} \cup
    CASE batch.domain = "work" ->
           IF Asked(batch, WorkKey) THEN {<<WorkDoc(TRUE)>>, <<WorkDoc(FALSE)>>} ELSE {}
      [] batch.domain = "edition" ->
           IF Asked(batch, SplitPop(EditionKey)) THEN {<<WorkDoc(TRUE)>>} ELSE {}
      [] batch.domain = "author" ->
           IF Asked(batch, AuthorKey) THEN {<<AuthorDoc>>} ELSE {}

\* doc.key = `/authors/${doc.key}`, for the documents of the author search
PrefixAuthorKey(doc) == [doc EXCEPT !.key = AuthorsPrefix \o doc.key]

\* variant of DocsOf: the keys of author documents are left as they come
DocsOfAsReturned(batch, resp) == resp

\* the documents a response adds to docs
DocsOf(batch, resp) ==
    IF batch.domain = "author" THEN MapSeq(PrefixAuthorKey, resp) ELSE resp

\* ------------------------------------------------------------------ render
\* this.cache[key] = value
Put(c, key, value) ==
    [k \in (DOMAIN c) \cup {key} |-> IF k = key THEN value ELSE c[k]]

\* this.cache[key], undefined when the cache has no such property
Get(c, key) == IF key \in DOMAIN c THEN c[key] ELSE Undefined

\* the edition of a work with the fields render() gives it
EditionOf(book) ==
    LET ed == book.editions.docs[1]
    IN  [key |-> ed.key, type |-> ed.type, title |-> ed.title,
         subtitle |-> ed.subtitle, full_title |-> FullTitle(ed),
         author_name |-> book.author_name, edition_count |-> book.edition_count]

\* the work as render() leaves it: full_title set and, the embedded edition
\* being the object that is cached, editions.docs[0] with its new fields
BookOf(thing) ==
    [key |-> thing.key, type |-> thing.type, title |-> thing.title,
     subtitle |-> thing.subtitle, full_title |-> FullTitle(thing),
     author_name |-> thing.author_name, edition_count |-> thing.edition_count,
     editions |-> [docs |-> IF Len(thing.editions.docs) > 0
                              THEN <<EditionOf(thing)>> ELSE <<>>]]

\* variant of CacheThing: the embedded edition is not cached under its key
CacheThingNoEdition(c, thing) ==
    IF thing.type = "work" THEN Put(c, thing.key, BookOf(thing))
    ELSE Put(c, thing.key, thing)

\* one iteration of `for (const thing of things)`
CacheThing(c, thing) ==
    IF thing.type = "work"
    THEN IF Len(thing.editions.docs) > 0
         THEN Put(Put(c, thing.key, BookOf(thing)),
                  thing.editions.docs[1].key, EditionOf(thing))
         ELSE Put(c, thing.key, BookOf(thing))
    ELSE Put(c, thing.key, thing)

RECURSIVE CacheThings(_, _)

\* variant of CacheThings: the cache is built anew from the things of this
\* render() call
CacheThingsFresh(c, things) ==
    IF things = <<>> THEN c
    ELSE CacheThings(CacheThing(<<>>, Head(things)), Tail(things))

\* the cache after `for (const thing of things)`
CacheThings(c, things) ==
    IF things = <<>> THEN c
    ELSE CacheThings(CacheThing(c, Head(things)), Tail(things))

\* the index of the first entry whose render_fn is not a function, at which
\* render_fn(book) throws a TypeError; Len(q) + 1 when there is none
RECURSIVE FirstNotCallable(_)
FirstNotCallable(q) ==
    IF q = <<>> THEN 1
    ELSE IF Head(q).render_fn = NoFn THEN 1
    ELSE 1 + FirstNotCallable(Tail(q))

\* does the render loop throw
LoopThrows(q) == FirstNotCallable(q) <= Len(q)

\* the entries `for (const {key, render_fn} of this.queue)` goes through and
\* calls the render function of: all, or those before the one it throws at
RenderedEntries(q) == SubSeq(q, 1, FirstNotCallable(q) - 1)

\* variant of QueueAfterRender: the queue is left as it is
QueueKept(q) == q

\* this.queue = [] at the end of render(), which a loop that threw does not
\* reach
QueueAfterRender(q) == IF LoopThrows(q) THEN q ELSE <<>>

\* the content of a placeholder element: the output of the render function
\* by for the thing value; NoContent before anything was rendered into it
NoContent == [by |-> NoFn, value |-> Undefined]

\* renderKey(key, render_fn, book): $(`.lazy-thing-preview[data-key="${key}"]`)
\* selects every placeholder of that key, .html(render_fn(book)) sets the
\* content of each; rs: the placeholders pushed so far, by element
RenderKey(h, rs, key, fn, book) ==
    [el \in DOMAIN h |->
        IF el <= Len(rs) /\ rs[el].key = key
        THEN [by |-> fn, value |-> book] ELSE h[el]]

\* the contents of the elements after the render loop went through entries
RECURSIVE RenderLoop(_, _, _, _)
RenderLoop(h, rs, entries, c) ==
    IF entries = <<>> THEN h
    ELSE RenderLoop(RenderKey(h, rs, Head(entries).key, Head(entries).render_fn,
                              Get(c, Head(entries).key)),
                    rs, Tail(entries), c)

\* the calls of render_fn that the render loop makes for the render function
\* fn, as records: the thing it is called with, and ghost fields: who called
\* (via) and how many push() calls had been made when that render() started
Renderings(q, c, snap, fn) ==
    MapSeq(LAMBDA e : [value |-> Get(c, e.key), via |-> "render", snap |-> snap],
           SelectSeq(RenderedEntries(q), LAMBDA e : e.render_fn = fn))

\* -------------------------------------------------------------------- push
\* variant of CacheHit: the cache is not consulted
CacheHitNever(c, key) == FALSE

\* if (this.cache[key])
CacheHit(c, key) == key \in DOMAIN c

\* variant of Debounced: a pending timer is left running (no reset)
DebouncedNoReset(t) == IF t # NoTimer THEN t ELSE Window

\* the debounce timer after a call of renderDebounced(): the pending timer,
\* if any, is dropped and one of a full window started
Debounced(t) == Window

\* ------------------------------------------------------------------- state
VARIABLES
    queue,      \* this.queue: the entries [key, render_fn]
    cache,      \* this.cache: key -> thing
    timer,      \* renderDebounced's timer: time left to run, or NoTimer
    flights,    \* the render() calls suspended at an await of getThings
    pushesLeft, \* ghost: the number of push() calls the page still makes
    html,       \* the content of the placeholder elements, by number of the
                \* push() call made for the element
    reqs,       \* ghost: the push() calls made so far, in order: the key, the
                \* window the call fell in, whether it queued an entry,
                \* whether the function it named exists, whether it threw
    fired,      \* ghost: the number of times the debounce timer has run out
    delivered,  \* ghost: per render function, the calls made of it
    sinceEnq,   \* ghost: time since the last push() that enqueued, capped
    lastEnded,  \* ghost: the render() call that the last step ended, if it did
    \* team.js, one function debounced() made by debounce(func, threshold, execAsap)
    execAsap,     \* the argument execAsap
    timeout,      \* the timer `timeout` holds: time left to run; NoTimer when
                  \* timeout is undefined or null
    pending,      \* the invocation whose obj and args the pending `delayed`
                  \* closes over, by number; 0 when no timer is pending
    funcCalls,    \* ghost: the calls func.apply(obj, args) made so far
    invocations,  \* ghost: the number of calls of debounced() made so far
    sinceInvoked, \* ghost: time since the last call of debounced(), capped
    bursts,       \* ghost: the number of calls of debounced() that came a full
                  \* threshold or more after the one before, or first
    \* validate.js, one form field with the class publish-date
    dateValue,    \* the value of the field
    dateResult,   \* what the validator made of it: "valid", "invalid", or
                  \* "unchecked" since the value last changed
    thisYear,     \* ghost: new Date().getFullYear()
    \* unnamed/part_001, the barcode scanner page
    lastResult,        \* let lastResult
    confirmation_list, \* let confirmation_list
    strip,             \* #result-strip: the ISBNs of its cards, first to last
    multipleScan,      \* is the checkbox #multiple-scan checked
    navigations,       \* the values assigned to window.location.href, in order
    detected,          \* ghost: the detections so far: the code, and whether
                       \* #multiple-scan was checked
    \* onboardingCard.js
    maxSlide,      \* const maxSlide = slides.length
    curSlide,      \* let curSlide
    shown,         \* the slide at translateX(0%); NoSlide before goToSlide ran
    activeDot,     \* the dot with the class dots__dot--active, or NoSlide
    btnText,       \* btnNext.textContent
    cardHidden,    \* has .card the class hidden
    overlayHidden, \* has .overlay the class hidden
    cardIsModal,   \* has the card element the class modal too
    cardEvent,     \* ghost: the event handled last
    \* MyBooksDropper.js, one dropper
    dropperPlaceholder, \* has the dropper a .list-loading-indicator
    listPlaceholder,    \* has the page a .list-overview-loading-indicator
    keyKind,            \* which of data-edition-key and data-work-key the
                        \* dropper's placeholder has: "edition" (also when it
                        \* has both), "work" or "none"
    interval,           \* the timer of initLoadingAnimation: "none" before
                        \* loadLists ran, then "running" or "cleared"
    count,              \* let count, of initLoadingAnimation
    ellipsis,           \* the number of dots in the loading indicators
    partials,           \* fetchPartials: "none", "pending" or "done"
    placeholders        \* the placeholders' content: "loading", "emptied" or
                        \* "replaced"

vars == <<queue, cache, timer, flights, pushesLeft, html, reqs, fired, delivered,
          sinceEnq, lastEnded>>

teamVars == <<execAsap, timeout, pending, funcCalls, invocations, sinceInvoked, bursts>>

dateVars == <<dateValue, dateResult, thisYear>>

scanVars == <<lastResult, confirmation_list, strip, multipleScan, navigations, detected>>

\* what is on the page beside the previews and the debounced function
cardVars == <<maxSlide, curSlide, shown, activeDot, btnText, cardHidden, overlayHidden,
              cardIsModal, cardEvent>>

dropperVars == <<dropperPlaceholder, listPlaceholder, keyKind, interval, count,
                 ellipsis, partials, placeholders>>

pageVars == <<dateVars, scanVars, cardVars, dropperVars>>

\* a clock step
Step == Window \div TicksPerWindow

Min(a, b) == IF a < b THEN a ELSE b
Max(a, b) == IF a > b THEN a ELSE b

\* s without its i-th element
RemoveAt(s, i) == SubSeq(s, 1, i - 1) \o SubSeq(s, i + 1, Len(s))

\* lastEnded when the last step did not end a render() call
NoneEnded ==
    [ended |-> FALSE, ok |-> FALSE, failed |-> "none", snap |-> 0, fns |-> <<>>,
     keys |-> <<>>, docs |-> <<>>, issued |-> <<>>, rendered |-> <<>>]

\* push() calls in one behaviour of SpecLong
LongRun == MaxRequests + 1

\* new LazyThingPreview(), all but the number of pushes to come
Created ==
    /\ queue = <<>>
    /\ cache = <<>>
    /\ timer = NoTimer
    /\ flights = <<>>
    /\ html = [el \in 1..LongRun |-> NoContent]
    /\ reqs = <<>>
    /\ fired = 0
    /\ delivered = [fn \in 1..LongRun |-> <<>>]
    /\ sinceEnq = Window
    /\ lastEnded = NoneEnded

\* debounce(func, threshold, execAsap) has returned debounced, not yet called
Debouncer ==
    /\ timeout = NoTimer
    /\ pending = 0
    /\ funcCalls = <<>>
    /\ invocations = 0
    /\ sinceInvoked = Threshold
    /\ bursts = 0

\* the years the page may be opened in
Years == {2026, 2027}

\* an empty publish-date field, in the year year
DateField(year) ==
    /\ dateValue = <<>>
    /\ dateResult = "unchecked"
    /\ thisYear = year

\* lastResult before the first code is accepted: null
NoResult == <<"null">>

\* the scanner page after init(), #multiple-scan checked or not
Scanner(multiple) ==
    /\ lastResult = NoResult
    /\ confirmation_list = <<>>
    /\ strip = <<>>
    /\ multipleScan = multiple
    /\ navigations = <<>>
    /\ detected = <<>>

\* no slide, no dot
NoSlide == -1

\* the page after initOnboardingCard(): n slides, the card and its overlay
\* hidden as the template has them; modal: the card has the class modal
Onboarding(n, modal) ==
    /\ maxSlide = n
    /\ curSlide = 0
    /\ shown = NoSlide
    /\ activeDot = NoSlide
    /\ btnText = "Next"
    /\ cardHidden = TRUE
    /\ overlayHidden = TRUE
    /\ cardIsModal = modal
    /\ cardEvent = "none"

\* new MyBooksDropper(dropper), before initialize(), on a page with these
\* placeholders
Dropper(hasDropper, hasList, kind) ==
    /\ dropperPlaceholder = hasDropper
    /\ listPlaceholder = hasList
    /\ keyKind = kind
    /\ interval = "none"
    /\ count = 0
    /\ ellipsis = 3
    /\ partials = "none"
    /\ placeholders = "loading"

\* the rest of the page, left alone
PageIdle ==
    /\ DateField(2026) /\ Scanner(FALSE) /\ Onboarding(2, FALSE)
    /\ Dropper(FALSE, FALSE, "none")

\* new LazyThingPreview() on a page that makes MaxRequests push() calls
Init ==
    Created /\ pushesLeft = MaxRequests /\ Debouncer /\ execAsap = FALSE /\ PageIdle

\* new LazyThingPreview() on a page that makes one push() call more
InitLong ==
    Created /\ pushesLeft = LongRun /\ Debouncer /\ execAsap = FALSE /\ PageIdle

\* a page that calls a function made by team.js's debounce, in either mode
InitDebounce ==
    Created /\ pushesLeft = 0 /\ Debouncer /\ execAsap \in BOOLEAN /\ PageIdle

\* a page with a publish-date field
InitValidate ==
    /\ Created /\ pushesLeft = 0 /\ Debouncer /\ execAsap = FALSE
    /\ \E year \in Years : DateField(year)
    /\ Scanner(FALSE) /\ Onboarding(2, FALSE) /\ Dropper(FALSE, FALSE, "none")

\* the barcode scanner page
InitScan ==
    /\ Created /\ pushesLeft = 0 /\ Debouncer /\ execAsap = FALSE
    /\ DateField(2026)
    /\ \E multiple \in BOOLEAN : Scanner(multiple)
    /\ Onboarding(2, FALSE) /\ Dropper(FALSE, FALSE, "none")

\* a page with the onboarding card
InitCard ==
    /\ Created /\ pushesLeft = 0 /\ Debouncer /\ execAsap = FALSE
    /\ DateField(2026) /\ Scanner(FALSE)
    /\ \E n \in 2..MaxSlides : \E modal \in BOOLEAN : Onboarding(n, modal)
    /\ Dropper(FALSE, FALSE, "none")

\* a page with a My Books dropper; a logged-out patron's has no placeholder
InitDropper ==
    /\ Created /\ pushesLeft = 0 /\ Debouncer /\ execAsap = FALSE
    /\ DateField(2026) /\ Scanner(FALSE) /\ Onboarding(2, FALSE)
    /\ \E hasDropper, hasList \in BOOLEAN : \E kind \in {"edition", "work", "none"} :
           /\ ~hasDropper => kind = "none"
           /\ Dropper(hasDropper, hasList, kind)

\* push({key, render_fn_name}) of a key the cache has: the render function is
\* called at once
PushCached(key) ==
    LET fn == Len(reqs) + 1 IN
    /\ pushesLeft > 0
    /\ pushesLeft' = pushesLeft - 1
    /\ CacheHit(cache, key)
    /\ reqs' = Append(reqs, [key |-> key, window |-> fired, queued |-> FALSE,
                             named |-> TRUE, raised |-> FALSE])
    /\ delivered' = [delivered EXCEPT ![fn] =
           Append(@, [value |-> cache[key], via |-> "push", snap |-> fn])]
    /\ html' = RenderKey(html, reqs', key, fn, cache[key])
    /\ lastEnded' = NoneEnded
    /\ UNCHANGED <<queue, cache, timer, flights, fired, sinceEnq>>
    /\ UNCHANGED <<teamVars, pageVars>>

\* variant of PushQueued: renderDebounced() is called only when no render()
\* is suspended
PushQueuedWhenIdle(key) ==
    LET fn == Len(reqs) + 1 IN
    /\ pushesLeft > 0
    /\ pushesLeft' = pushesLeft - 1
    /\ ~CacheHit(cache, key)
    /\ reqs' = Append(reqs, [key |-> key, window |-> fired, queued |-> TRUE,
                             named |-> TRUE, raised |-> FALSE])
    /\ queue' = Append(queue, [key |-> key, render_fn |-> fn])
    /\ timer' = IF flights = <<>> THEN Debounced(timer) ELSE timer
    /\ sinceEnq' = 0
    /\ lastEnded' = NoneEnded
    /\ UNCHANGED <<cache, flights, html, fired, delivered>>
    /\ UNCHANGED <<teamVars, pageVars>>

\* push({key, render_fn_name}) of a key the cache lacks: the entry is queued
\* and renderDebounced() called
PushQueued(key) ==
    LET fn == Len(reqs) + 1 IN
    /\ pushesLeft > 0
    /\ pushesLeft' = pushesLeft - 1
    /\ ~CacheHit(cache, key)
    /\ reqs' = Append(reqs, [key |-> key, window |-> fired, queued |-> TRUE,
                             named |-> TRUE, raised |-> FALSE])
    /\ queue' = Append(queue, [key |-> key, render_fn |-> fn])
    /\ timer' = Debounced(timer)
    /\ sinceEnq' = 0
    /\ lastEnded' = NoneEnded
    /\ UNCHANGED <<cache, flights, html, fired, delivered>>
    /\ UNCHANGED <<teamVars, pageVars>>

\* push() for a placeholder that names no existing render function, of a key
\* the cache has: renderKey calls render_fn(book), which throws a TypeError
\* out of push()
PushUnnamedCached(key) ==
    /\ pushesLeft > 0
    /\ pushesLeft' = pushesLeft - 1
    /\ CacheHit(cache, key)
    /\ reqs' = Append(reqs, [key |-> key, window |-> fired, queued |-> FALSE,
                             named |-> FALSE, raised |-> TRUE])
    /\ lastEnded' = NoneEnded
    /\ UNCHANGED <<queue, cache, timer, flights, html, fired, delivered, sinceEnq>>
    /\ UNCHANGED <<teamVars, pageVars>>

\* push() for a placeholder that lacks its key (key = NoKey) or names no
\* existing render function (~named), the cache having no such key: the
\* entry is queued as any other
PushMalformedQueued(key, named) ==
    LET fn == Len(reqs) + 1 IN
    /\ key = NoKey \/ ~named
    /\ pushesLeft > 0
    /\ pushesLeft' = pushesLeft - 1
    /\ ~CacheHit(cache, key)
    /\ reqs' = Append(reqs, [key |-> key, window |-> fired, queued |-> TRUE,
                             named |-> named, raised |-> FALSE])
    /\ queue' = Append(queue, [key |-> key, render_fn |-> IF named THEN fn ELSE NoFn])
    /\ timer' = Debounced(timer)
    /\ sinceEnq' = 0
    /\ lastEnded' = NoneEnded
    /\ UNCHANGED <<cache, flights, html, fired, delivered>>
    /\ UNCHANGED <<teamVars, pageVars>>

\* time passes
Tick ==
    /\ timer > 0 \/ sinceEnq < Window
    /\ timer' = IF timer > 0 THEN Max(timer - Step, 0) ELSE timer
    /\ sinceEnq' = Min(sinceEnq + Step, Window)
    /\ lastEnded' = NoneEnded
    /\ UNCHANGED <<queue, cache, flights, pushesLeft, html, reqs, fired, delivered>>
    /\ UNCHANGED <<teamVars, pageVars>>

\* render() from `for (const thing of things)` to its end, run by the call
\* that took snapshot snap, with the result things of getThings
RenderRest(snap, things, ended) ==
    LET c == CacheThings(cache, things) IN
    /\ cache' = c
    /\ delivered' = [fn \in DOMAIN delivered |->
                        delivered[fn] \o Renderings(queue, c, snap, fn)]
    /\ html' = RenderLoop(html, reqs, RenderedEntries(queue), c)
    /\ queue' = QueueAfterRender(queue)
    /\ lastEnded' = [ended EXCEPT !.ended = TRUE, !.ok = ~LoopThrows(queue),
                         !.failed = IF LoopThrows(queue) THEN "loop" ELSE "none",
                         !.docs = things,
                         !.rendered = MapSeq(LAMBDA e : e.render_fn,
                                             RenderedEntries(queue))]

\* the timer runs out: render() is called.  It takes the keys of the queue and
\* calls getThings, which sends its first request and awaits the response; if
\* there is nothing to request, render() goes on to its end.
RenderStart ==
    LET keys == MapSeq(LAMBDA e : e.key, queue)
        plan == Batches(keys)
        call == [snap |-> Len(reqs), fns |-> MapSeq(LAMBDA e : e.render_fn, queue),
                 keys |-> keys, plan |-> plan, docs |-> <<>>,
                 issued |-> IF plan = <<>> THEN <<>> ELSE <<plan[1].domain>>]
    IN
    /\ timer = 0
    /\ \A i \in 1..Len(keys) : keys[i] # NoKey
    /\ plan = <<>> \/ Len(flights) < MaxFlights
    /\ timer' = NoTimer
    /\ fired' = fired + 1
    /\ IF plan = <<>>
       THEN /\ RenderRest(call.snap, <<>>,
                   [ended |-> FALSE, ok |-> FALSE, failed |-> "none",
                    snap |-> call.snap, fns |-> call.fns, keys |-> keys,
                    docs |-> <<>>, issued |-> <<>>, rendered |-> <<>>])
            /\ UNCHANGED flights
       ELSE /\ flights' = Append(flights, call)
            /\ lastEnded' = NoneEnded
            /\ UNCHANGED <<queue, cache, html, delivered>>
    /\ UNCHANGED <<pushesLeft, reqs, sinceEnq>>
    /\ UNCHANGED <<teamVars, pageVars>>

\* the timer runs out with an entry in the queue that has no key: render()
\* calls getThings, where key.startsWith throws a TypeError in the first
\* keys.filter; render() ends there, no request sent
RenderThrows ==
    LET keys == MapSeq(LAMBDA e : e.key, queue) IN
    /\ timer = 0
    /\ \E i \in 1..Len(keys) : keys[i] = NoKey
    /\ timer' = NoTimer
    /\ fired' = fired + 1
    /\ lastEnded' = [ended |-> TRUE, ok |-> FALSE, failed |-> "getThings",
                     snap |-> Len(reqs), fns |-> MapSeq(LAMBDA e : e.render_fn, queue),
                     keys |-> keys, docs |-> <<>>, issued |-> <<>>, rendered |-> <<>>]
    /\ UNCHANGED <<queue, cache, flights, pushesLeft, html, reqs, delivered, sinceEnq>>
    /\ UNCHANGED <<teamVars, pageVars>>

\* the response to the request the i-th suspended render() awaits arrives
\* with the documents resp: getThings sends its next request or, after its
\* last, returns docs and render() goes on to its end
LookupDone(i, resp) ==
    LET call == flights[i]
        docs == call.docs \o DocsOf(call.plan[1], resp)
        rest == Tail(call.plan)
    IN
    /\ resp \in Responses(call.plan[1])
    /\ IF rest # <<>>
       THEN /\ flights' = [flights EXCEPT ![i] =
                   [call EXCEPT !.plan = rest, !.docs = docs,
                                !.issued = Append(@, rest[1].domain)]]
            /\ lastEnded' = NoneEnded
            /\ UNCHANGED <<queue, cache, html, delivered>>
       ELSE /\ flights' = RemoveAt(flights, i)
            /\ RenderRest(call.snap, docs,
                   [ended |-> FALSE, ok |-> FALSE, failed |-> "none",
                    snap |-> call.snap, fns |-> call.fns, keys |-> call.keys,
                    docs |-> <<>>, issued |-> call.issued, rendered |-> <<>>])
    /\ UNCHANGED <<timer, pushesLeft, reqs, fired, sinceEnq>>
    /\ UNCHANGED <<teamVars, pageVars>>

\* variant of LookupFailed: the documents received before the failure are
\* put in the cache
LookupFailedCaches(i) ==
    LET call == flights[i] IN
    /\ flights' = RemoveAt(flights, i)
    /\ cache' = CacheThings(cache, call.docs)
    /\ lastEnded' = [ended |-> TRUE, ok |-> FALSE, failed |-> call.plan[1].domain,
                     snap |-> call.snap, fns |-> call.fns, keys |-> call.keys,
                     docs |-> call.docs, issued |-> call.issued, rendered |-> <<>>]
    /\ UNCHANGED <<queue, timer, pushesLeft, html, reqs, fired, delivered, sinceEnq>>
    /\ UNCHANGED <<teamVars, pageVars>>

\* the request the i-th suspended render() awaits fails (fetch or r.json()
\* rejects): getThings throws, and so does render(), at its await
LookupFailed(i) ==
    LET call == flights[i] IN
    /\ flights' = RemoveAt(flights, i)
    /\ lastEnded' = [ended |-> TRUE, ok |-> FALSE, failed |-> call.plan[1].domain,
                     snap |-> call.snap, fns |-> call.fns, keys |-> call.keys,
                     docs |-> call.docs, issued |-> call.issued, rendered |-> <<>>]
    /\ UNCHANGED <<queue, cache, timer, pushesLeft, html, reqs, fired, delivered,
                   sinceEnq>>
    /\ UNCHANGED <<teamVars, pageVars>>

\* a response arrives for one of the suspended render() calls
Responded ==
    \E i \in 1..Len(flights) : \E resp \in Responses(flights[i].plan[1]) :
        LookupDone(i, resp)

\* a request of one of the suspended render() calls fails
Rejected == \E i \in 1..Len(flights) : LookupFailed(i)

Next ==
    \/ \E key \in PageKeys : PushCached(key)
    \/ \E key \in PageKeys : PushQueued(key)
    \/ Tick
    \/ RenderStart
    \/ Responded
    \/ Rejected

Spec == Init /\ [][Next]_vars

\* the steps of a page some of whose placeholders lack the key or name no
\* existing render function
NextMarkup ==
    \/ \E key \in PageKeys : PushCached(key)
    \/ \E key \in PageKeys : PushQueued(key)
    \/ \E key \in PageKeys : PushUnnamedCached(key)
    \/ \E key \in PageKeys \cup {NoKey} : \E named \in BOOLEAN :
           PushMalformedQueued(key, named)
    \/ Tick
    \/ RenderStart
    \/ RenderThrows
    \/ Responded
    \/ Rejected

SpecMarkup == Init /\ [][NextMarkup]_vars

\* ------------------------------------------------------- team.js: debounce
\* variant of CallsAtOnce: with execAsap, func is called on every invocation
CallsAtOnceAlways(t, asap) == asap

\* does debounced() call func itself: `if (timeout) {...} else if (execAsap)`
CallsAtOnce(t, asap) == t = NoTimer /\ asap

\* does delayed() call func: `if (!execAsap)`
DelayedCalls(asap) == ~asap

\* variant of Rearmed: a pending timer is left running, not replaced
RearmedKeep(t) == IF t # NoTimer THEN t ELSE Threshold

\* timeout after clearTimeout(timeout), if it was set, and
\* timeout = setTimeout(delayed, threshold)
Rearmed(t) == Threshold

\* debounced() is called: the n-th call, with a receiver and arguments of its
\* own.  A timer that has run out calls delayed() before anything else runs.
Invoke ==
    LET n == invocations + 1 IN
    /\ invocations < MaxInvocations
    /\ timeout # 0
    /\ invocations' = n
    /\ bursts' = IF sinceInvoked >= Threshold THEN bursts + 1 ELSE bursts
    /\ funcCalls' = IF CallsAtOnce(timeout, execAsap)
                    THEN Append(funcCalls, [call |-> n, last |-> n, by |-> "debounced",
                                            since |-> sinceInvoked])
                    ELSE funcCalls
    /\ timeout' = Rearmed(timeout)
    /\ pending' = n
    /\ sinceInvoked' = 0
    /\ UNCHANGED execAsap
    /\ UNCHANGED <<vars, pageVars>>

\* time passes
TeamTick ==
    /\ timeout > 0 \/ sinceInvoked < Threshold
    /\ timeout' = IF timeout > 0 THEN Max(timeout - Step, 0) ELSE timeout
    /\ sinceInvoked' = Min(sinceInvoked + Step, Threshold)
    /\ UNCHANGED <<execAsap, pending, funcCalls, invocations, bursts>>
    /\ UNCHANGED <<vars, pageVars>>

\* the timer runs out: delayed() is called
Delayed ==
    /\ timeout = 0
    /\ funcCalls' = IF DelayedCalls(execAsap)
                    THEN Append(funcCalls, [call |-> pending, last |-> invocations,
                                            by |-> "delayed", since |-> sinceInvoked])
                    ELSE funcCalls
    /\ timeout' = NoTimer
    /\ pending' = 0
    /\ UNCHANGED <<execAsap, invocations, sinceInvoked, bursts>>
    /\ UNCHANGED <<vars, pageVars>>

NextDebounce ==
    \/ Invoke
    \/ TeamTick
    \/ Delayed

SpecDebounce == InitDebounce /\ [][NextDebounce]_teamVars

\* ------------------------------------------------ validate.js: publish-date
\* the characters that can be typed into the field
DateChars == {"0", "1", "2", "9", "x", "/"}

Digits == {"0", "1", "2", "3", "4", "5", "6", "7", "8", "9"}

\* exec of /^([1-9][x0-9]{0,3}|[x]{4})$/: does value match
MatchesTokenXxxx(value) ==
    \/ /\ Len(value) \in 1..4
       /\ value[1] \in Digits \ {"0"}
       /\ \A i \in 2..Len(value) : value[i] \in Digits \cup {"x"}
    \/ value = <<"x", "x", "x", "x">>

\* the method 'publish-date': return token_xxxx, which is null or the match
PublishDate(value) == IF MatchesTokenXxxx(value) THEN "valid" ELSE "invalid"

\* a character is typed
TypeChar(c) ==
    /\ Len(dateValue) < MaxDateLen
    /\ dateValue' = Append(dateValue, c)
    /\ dateResult' = "unchecked"
    /\ UNCHANGED thisYear
    /\ UNCHANGED <<vars, teamVars, scanVars, cardVars, dropperVars>>

\* the field is emptied
ClearField ==
    /\ dateValue # <<>>
    /\ dateValue' = <<>>
    /\ dateResult' = "unchecked"
    /\ UNCHANGED thisYear
    /\ UNCHANGED <<vars, teamVars, scanVars, cardVars, dropperVars>>

\* the form is validated: the method is called with the value of the field
Validate ==
    /\ dateResult = "unchecked"
    /\ dateResult' = PublishDate(dateValue)
    /\ UNCHANGED <<dateValue, thisYear>>
    /\ UNCHANGED <<vars, teamVars, scanVars, cardVars, dropperVars>>

NextValidate ==
    \/ \E c \in DateChars : TypeChar(c)
    \/ ClearField
    \/ Validate

SpecValidate == InitValidate /\ [][NextValidate]_dateVars

SpecLong == InitLong /\ [][Next]_vars

TypeOK ==
    /\ timer \in {NoTimer} \cup 0..Window
    /\ Len(reqs) + pushesLeft \in {0, MaxRequests, LongRun}
    /\ Len(flights) <= MaxFlights
    /\ DOMAIN cache \subseteq PageKeys

\* ------------------------------------------------ part_001: barcode scanner
\* the codes the camera may show: two ISBNs (EAN-13 of a book starts with 978
\* or 979) and the EAN of something else
ScanCodes == {<<"9", "7", "8", "1">>, <<"9", "7", "9", "2">>, <<"5", "0", "1">>}

\* isBarcodeISBN(code): code.startsWith('97')
IsBarcodeISBN(code) == StartsWith(code, <<"9", "7">>)

\* variant of CheckISBN: a code is confirmed by its second detection
CheckISBNTwice(code, list) ==
    IF Len(list) = 0 THEN [ret |-> FALSE, list |-> <<code>>]
    ELSE IF \E i \in 1..Len(list) : list[i] = code
         THEN [ret |-> TRUE, list |-> <<>>]
         ELSE [ret |-> FALSE, list |-> list]

\* CheckISBN(code, confirmation_list): what it returns and what it leaves in
\* the list
CheckISBN(code, list) ==
    LET pushed == IF Len(list) = 0 THEN <<code>> ELSE list IN
    IF \E i \in 1..Len(pushed) : pushed[i] = code
    THEN [ret |-> TRUE, list |-> <<>>]
    ELSE [ret |-> FALSE, list |-> pushed]

\* variant of Ignored: the code is not compared with lastResult
IgnoredUnlessISBN(code, last) == ~IsBarcodeISBN(code)

\* if (!isBarcodeISBN(code) || code == lastResult) return
Ignored(code, last) == ~IsBarcodeISBN(code) \/ code = last

\* `/isbn/${code}`
IsbnUrl(code) == <<"/isbn/">> \o code

\* the handler of Quagga.onDetected is called with code
Detect(code) ==
    /\ Len(detected) < MaxDetections
    /\ detected' = Append(detected, [code |-> code, multiple |-> multipleScan])
    /\ IF Ignored(code, lastResult)
       THEN UNCHANGED <<lastResult, confirmation_list, strip, navigations>>
       ELSE /\ lastResult' = code
            /\ IF IsBarcodeISBN(code) /\ multipleScan = FALSE
               THEN LET check == CheckISBN(code, confirmation_list) IN
                    /\ confirmation_list' = check.list
                    /\ navigations' = IF check.ret = TRUE
                                      THEN Append(navigations, IsbnUrl(code))
                                      ELSE navigations
               ELSE UNCHANGED <<confirmation_list, navigations>>
            /\ strip' = <<code>> \o strip
    /\ UNCHANGED multipleScan
    /\ UNCHANGED <<vars, teamVars, dateVars, cardVars, dropperVars>>

\* the patron checks or unchecks #multiple-scan
ToggleMultipleScan ==
    /\ multipleScan' = ~multipleScan
    /\ UNCHANGED <<lastResult, confirmation_list, strip, navigations, detected>>
    /\ UNCHANGED <<vars, teamVars, dateVars, cardVars, dropperVars>>

NextScan ==
    \/ \E code \in ScanCodes : Detect(code)
    \/ ToggleMultipleScan

SpecScan == InitScan /\ [][NextScan]_scanVars

\* -------------------------------------------------------- onboardingCard.js
\* btnNext.textContent after goToSlide(slide).  A dot click passes the string
\* of e.target.dataset (isString), which `slide === maxSlide-1` never equals.
ButtonText(slide, isString) ==
    IF ~isString /\ slide = maxSlide - 1 THEN "" ELSE "Next"

\* curSlide after nextSlide()
NextIndex(cur) == IF cur = maxSlide - 1 THEN 0 ELSE cur + 1

\* curSlide after prevSlide()
PrevIndex(cur) == IF cur = 0 THEN maxSlide - 1 ELSE cur - 1

\* a click on .show-card: openModal, and the slider's listener: goToSlide(0),
\* activateDot(0)
ShowCardClick ==
    /\ cardHidden' = FALSE
    /\ overlayHidden' = FALSE
    /\ shown' = 0
    /\ activeDot' = 0
    /\ btnText' = ButtonText(0, FALSE)
    /\ cardEvent' = "show-card"
    /\ UNCHANGED <<maxSlide, curSlide, cardIsModal>>
    /\ UNCHANGED <<vars, teamVars, dateVars, scanVars, dropperVars>>

\* a click on .btn-close-card, in the card, or on .overlay: closeModal
CloseClick(target) ==
    /\ target = "btn-close-card" => ~cardHidden
    /\ target = "overlay" => ~overlayHidden
    /\ cardHidden' = TRUE
    /\ overlayHidden' = TRUE
    /\ cardEvent' = target
    /\ UNCHANGED <<maxSlide, curSlide, shown, activeDot, btnText, cardIsModal>>
    /\ UNCHANGED <<vars, teamVars, dateVars, scanVars, dropperVars>>

\* the key Escape: $('.modal').toggleClass('hidden') toggles the class on
\* every element of class modal and returns the jQuery object, which is
\* truthy, so closeModal() is not called
KeyEscape ==
    /\ cardHidden' = IF cardIsModal THEN ~cardHidden ELSE cardHidden
    /\ cardEvent' = "Escape"
    /\ UNCHANGED <<maxSlide, curSlide, shown, activeDot, btnText, overlayHidden,
                   cardIsModal>>
    /\ UNCHANGED <<vars, teamVars, dateVars, scanVars, dropperVars>>

\* a click on .btn-next-card, in the card, or the key ArrowRight: nextSlide
NextSlide(event) ==
    /\ event = "btn-next-card" => ~cardHidden
    /\ curSlide' = NextIndex(curSlide)
    /\ shown' = curSlide'
    /\ activeDot' = curSlide'
    /\ btnText' = ButtonText(curSlide', FALSE)
    /\ cardEvent' = event
    /\ UNCHANGED <<maxSlide, cardHidden, overlayHidden, cardIsModal>>
    /\ UNCHANGED <<vars, teamVars, dateVars, scanVars, dropperVars>>

\* the key ArrowLeft: prevSlide
KeyArrowLeft ==
    /\ curSlide' = PrevIndex(curSlide)
    /\ shown' = curSlide'
    /\ activeDot' = curSlide'
    /\ btnText' = ButtonText(curSlide', FALSE)
    /\ cardEvent' = "ArrowLeft"
    /\ UNCHANGED <<maxSlide, cardHidden, overlayHidden, cardIsModal>>
    /\ UNCHANGED <<vars, teamVars, dateVars, scanVars, dropperVars>>

\* a click on the dot of slide: goToSlide(slide), activateDot(slide) with the
\* string of its data-slide
DotClick(slide) ==
    /\ ~cardHidden
    /\ shown' = slide
    /\ activeDot' = slide
    /\ btnText' = ButtonText(slide, TRUE)
    /\ cardEvent' = "dot"
    /\ UNCHANGED <<maxSlide, curSlide, cardHidden, overlayHidden, cardIsModal>>
    /\ UNCHANGED <<vars, teamVars, dateVars, scanVars, dropperVars>>

\* a click on one of the dots
DotClicked == \E slide \in 0..(maxSlide - 1) : DotClick(slide)

NextCard ==
    \/ ShowCardClick
    \/ \E target \in {"btn-close-card", "overlay"} : CloseClick(target)
    \/ KeyEscape
    \/ \E event \in {"btn-next-card", "ArrowRight"} : NextSlide(event)
    \/ KeyArrowLeft
    \/ DotClicked

SpecCard == InitCard /\ [][NextCard]_cardVars

\* ----------------------------------------------------------- MyBooksDropper
\* loadLists(): the animation is started; with a key fetchPartials is called,
\* without one the placeholders are emptied
LoadLists ==
    /\ interval = "none"
    /\ interval' = "running"
    /\ IF dropperPlaceholder /\ keyKind # "none"
       THEN partials' = "pending" /\ UNCHANGED placeholders
       ELSE placeholders' = "emptied" /\ UNCHANGED partials
    /\ UNCHANGED <<dropperPlaceholder, listPlaceholder, keyKind, count, ellipsis>>
    /\ UNCHANGED <<vars, teamVars, dateVars, scanVars, cardVars>>

\* the interval's callback runs: count % 4 dots, ++count
AnimationTick ==
    /\ interval = "running"
    /\ count < MaxAnimationTicks
    /\ ellipsis' = count % 4
    /\ count' = count + 1
    /\ UNCHANGED <<dropperPlaceholder, listPlaceholder, keyKind, interval, partials,
                   placeholders>>
    /\ UNCHANGED <<vars, teamVars, dateVars, scanVars, cardVars>>

\* fetchPartials calls back: clearInterval(intervalId) and
\* replaceLoadingIndicators
PartialsFetched ==
    /\ partials = "pending"
    /\ partials' = "done"
    /\ interval' = "cleared"
    /\ placeholders' = "replaced"
    /\ UNCHANGED <<dropperPlaceholder, listPlaceholder, keyKind, count, ellipsis>>
    /\ UNCHANGED <<vars, teamVars, dateVars, scanVars, cardVars>>

NextDropper ==
    \/ LoadLists
    \/ AnimationTick
    \/ PartialsFetched

SpecDropper == InitDropper /\ [][NextDropper]_dropperVars

\* ------------------------------------------------------------- properties
\* the push() calls made so far, by number
Calls == 1..Len(reqs)

\* no element of s occurs twice
NoRepeat(s) == \A a, b \in 1..Len(s) : a # b => s[a] # s[b]

\* no timer is pending and no render() is suspended: nothing more happens
\* unless push() is called again
Quiescent == timer = NoTimer /\ flights = <<>>

\* C1: the render function a push() call named is called at most once, never
\* by two render() calls nor twice by one, whatever pushes, timer expiries,
\* responses and failed requests follow.
AtMostOnce == \A fn \in Calls : Len(delivered[fn]) <= 1

\* C1 witness: a render function was called by a render(), and a render()
\* that started after further pushes has ended since
AtMostOnceWitness ==
    \E fn \in Calls :
        /\ Len(delivered[fn]) = 1
        /\ delivered[fn][1].via = "render"
        /\ lastEnded.ended /\ lastEnded.ok
        /\ lastEnded.snap > delivered[fn][1].snap

\* C2: every push() call is eventually followed by a call of its render
\* function, also when a request fails and no further push() is made; so
\* whenever the timer and all requests have settled, every render function
\* named so far has been called.
EventuallyInvoked ==
    Quiescent => \A fn \in Calls : Len(delivered[fn]) >= 1

\* C3: a render() call sends at most one search request per kind of key
\* (work, edition, author), hence at most 3, however many entries are queued.
OneLookupPerDomain ==
    /\ \A i \in 1..Len(flights) :
           /\ NoRepeat(flights[i].issued)
           /\ Len(flights[i].issued) <= 3
    /\ NoRepeat(lastEnded.issued)
    /\ Len(lastEnded.issued) <= 3

\* C3 witness: a render() call that took two entries of one kind from the
\* queue has sent its request and awaits the response
OneLookupPerDomainWitness ==
    \E i \in 1..Len(flights) :
        \E a, b \in 1..Len(flights[i].keys) :
            /\ a # b
            /\ DomainOf(flights[i].keys[a]) = DomainOf(flights[i].keys[b])
            /\ DomainOf(flights[i].keys[a]) # "none"
            /\ flights[i].issued # <<>>

\* C4: every push() that queues an entry sets the timer to a full window, and
\* render() starts only when a full window has passed since the last such
\* push() (never with the push itself).
TrailingDebounce ==
    [][/\ Len(reqs') > Len(reqs) /\ reqs'[Len(reqs')].queued => timer' = Window
       /\ fired' > fired => sinceEnq = Window /\ reqs' = reqs]_vars

\* C4 witness: a render() call started from a burst of two pushes is
\* suspended, the timer gone
TrailingDebounceWitness ==
    /\ timer = NoTimer
    /\ sinceEnq = Window
    /\ \E i \in 1..Len(flights) :
           /\ Len(flights[i].fns) >= 2
           /\ flights[i].snap = Len(reqs)

\* C5: a push() of a key that is in the cache calls its render function at
\* once with the cached thing and leaves the queue and the timer as they are
\* and sends no search request (every request sent is recorded in the issued
\* field of a suspended render() call).
CacheHitBypass ==
    [][Len(reqs') > Len(reqs) /\ reqs'[Len(reqs')].key \in DOMAIN cache =>
          /\ queue' = queue
          /\ timer' = timer
          /\ flights' = flights
          /\ delivered'[Len(reqs')] =
                <<[value |-> cache[reqs'[Len(reqs')].key], via |-> "push",
                   snap |-> Len(reqs')]>>]_vars

\* C5 witness: a render function was called by push() with a cached thing
CacheHitBypassWitness ==
    \E fn \in Calls :
        /\ ~reqs[fn].queued
        /\ Len(delivered[fn]) = 1
        /\ delivered[fn][1].via = "push"
        /\ delivered[fn][1].value = cache[reqs[fn].key]

\* C6: when the author request of a render() call fails after its work
\* request returned the work, the render function of the work entry is
\* called with the work and that of the author entry with undefined.
PartialDomainFailure ==
    (/\ lastEnded.ended
     /\ lastEnded.failed = "author"
     /\ \E d \in 1..Len(lastEnded.docs) : lastEnded.docs[d].key = WorkKey)
    => \A i \in 1..Len(lastEnded.fns) :
          LET fn == lastEnded.fns[i]
              key == lastEnded.keys[i]
          IN  /\ key = WorkKey =>
                    /\ Len(delivered[fn]) = 1
                    /\ delivered[fn][1].value.type = "work"
              /\ key = AuthorKey =>
                    /\ Len(delivered[fn]) = 1
                    /\ delivered[fn][1].value = Undefined

\* C7: when a render() call has ended, also by a failed request, no entry
\* that was queued when it started is still in the queue.
QueueDrained ==
    lastEnded.ended =>
        \A i \in 1..Len(queue) : \A j \in 1..Len(lastEnded.fns) :
            queue[i].render_fn # lastEnded.fns[j]

\* C8: the render function of a push() made while a render() call awaits its
\* responses is not called by that render() call, only by one that started
\* after the push.
NotMergedIntoInFlight ==
    \A fn \in Calls : \A d \in 1..Len(delivered[fn]) :
        delivered[fn][d].via = "render" => delivered[fn][d].snap >= fn

\* C9: the render functions of pushes of one key that queued in the same
\* window are all called with the same value, the same thing or undefined.
DuplicateFanOut ==
    \A a, b \in Calls :
        (/\ reqs[a].queued /\ reqs[b].queued
         /\ reqs[a].key = reqs[b].key
         /\ reqs[a].window = reqs[b].window
         /\ delivered[a] # <<>> /\ delivered[b] # <<>>)
        => delivered[a][1].value = delivered[b][1].value

\* the premise of C10: render() ended after its work request returned the
\* work with the edition embedded, having taken the keys of both
DenormalizationCase ==
    /\ lastEnded.ended /\ lastEnded.ok
    /\ \E i \in 1..Len(lastEnded.keys) : lastEnded.keys[i] = WorkKey
    /\ \E i \in 1..Len(lastEnded.keys) : lastEnded.keys[i] = EditionKey
    /\ lastEnded.docs # <<>>
    /\ lastEnded.docs[1] = WorkDoc(TRUE)

PushNeverRaises == \A fn \in Calls : ~reqs[fn].raised

\* C13: a placeholder that lacks its key or names no existing render function
\* is passed over and the others are served as if it were not there: when a
\* render() call ends and none of its requests has failed, the render
\* function of every entry it took that has a key and a render function has
\* been called.
MalformedSkipped ==
    (/\ lastEnded.ended
     /\ lastEnded.failed \notin {"work", "edition", "author"})
    => \A i \in 1..Len(lastEnded.fns) :
           (lastEnded.keys[i] # NoKey /\ lastEnded.fns[i] # NoFn)
           => delivered[lastEnded.fns[i]] # <<>>

\* is key in the query of one of the requests of plan
InPlan(plan, key) ==
    \E b \in 1..Len(plan) :
        /\ plan[b].domain = DomainOf(key)
        /\ Asked(plan[b], IF DomainOf(key) = "edition" THEN SplitPop(key) ELSE key)

\* C14: a failed request leaves the cache as it was and starts neither a
\* timer nor a render(); a push() of a key the cache lacks queues an entry
\* for it; and a render() that starts asks for every key of a known kind
\* that the queue has.
FailureNotCached ==
    [][/\ (lastEnded'.ended /\ lastEnded'.failed \in {"work", "edition", "author"})
          => /\ cache' = cache
             /\ timer' = timer
             /\ fired' = fired
             /\ Len(flights') < Len(flights)
       /\ (Len(reqs') > Len(reqs) /\ reqs'[Len(reqs')].key \notin DOMAIN cache)
          => /\ reqs'[Len(reqs')].queued
             /\ Len(queue') = Len(queue) + 1
             /\ queue'[Len(queue')].key = reqs'[Len(reqs')].key
             /\ timer' = Window
       /\ (fired' > fired /\ Len(flights') > Len(flights))
          => \A i \in 1..Len(queue) :
                 DomainOf(queue[i].key) # "none"
                 => InPlan(flights'[Len(flights')].plan, queue[i].key)]_vars

\* C14 witness: the only suspended render() asks for a key on behalf of two
\* pushes of different windows: the render() that took the first has ended
\* without rendering or caching it, its request having failed, and the key
\* was pushed again, queued again and is asked for again
FailureNotCachedWitness ==
    /\ Len(flights) = 1
    /\ \E a, b \in 1..Len(flights[1].fns) :
           LET fa == flights[1].fns[a]
               fb == flights[1].fns[b]
           IN  /\ reqs[fa].key = reqs[fb].key
               /\ reqs[fa].window < reqs[fb].window
               /\ reqs[fa].key \notin DOMAIN cache
               /\ InPlan(flights[1].plan, reqs[fa].key)

\* C15: no render function is called while a render() call that took its
\* entry still has the request for its key to send or to be answered.
DispatchAfterLookups ==
    \A i \in 1..Len(flights) : \A k \in 1..Len(flights[i].fns) :
        InPlan(flights[i].plan, flights[i].keys[k])
        => delivered[flights[i].fns[k]] = <<>>

OwnRenderFunction ==
    \A el \in Calls :
        delivered[el] # <<>> =>
            html[el] = [by |-> el, value |-> delivered[el][Len(delivered[el])].value]

\* C20: whenever no timer is pending and no render() is suspended, the queue
\* is empty.
IdleQueueEmpty == Quiescent => queue = <<>>

\* C18: without execAsap, func is called only by delayed(), a full threshold
\* after the last call of debounced(), with the receiver and arguments of
\* that last call, and once for every burst that has ended: not while calls
\* keep coming less than a threshold apart.
TrailingMode ==
    ~execAsap =>
        /\ \A c \in 1..Len(funcCalls) :
               /\ funcCalls[c].by = "delayed"
               /\ funcCalls[c].since = Threshold
               /\ funcCalls[c].call = funcCalls[c].last
        /\ Len(funcCalls) = bursts - (IF timeout # NoTimer THEN 1 ELSE 0)

\* C18 witness: a burst of two calls less than a threshold apart has ended,
\* and func was called once, with what the second call was given
TrailingModeWitness ==
    /\ ~execAsap
    /\ invocations = 2
    /\ bursts = 1
    /\ timeout = NoTimer
    /\ Len(funcCalls) = 1
    /\ funcCalls[1].call = 2

\* C19: with execAsap, func is called only by debounced() itself, by a call
\* that is the first or comes a full threshold after the one before, and
\* once for every burst: not by the other calls of the burst nor by
\* delayed().
LeadingMode ==
    execAsap =>
        /\ \A c \in 1..Len(funcCalls) :
               /\ funcCalls[c].by = "debounced"
               /\ funcCalls[c].since = Threshold
        /\ Len(funcCalls) = bursts

\* C19 witness: after a burst of two calls, for which func was called once,
\* and a threshold of silence, a third call has called func again
LeadingModeWitness ==
    /\ execAsap
    /\ invocations = 3
    /\ bursts = 2
    /\ funcCalls = <<[call |-> 1, last |-> 1, by |-> "debounced", since |-> Threshold],
                     [call |-> 3, last |-> 3, by |-> "debounced", since |-> Threshold]>>

\* C21: no key occurs twice in the query of a search request, also when
\* several pushes of one window queued the key.
DistinctLookupKeys ==
    \A i \in 1..Len(flights) : \A b \in 1..Len(flights[i].plan) :
        /\ flights[i].plan[b].terms # <<>>
        /\ NoRepeat(flights[i].plan[b].terms)

\* C22: two render() calls that are suspended at the same time have taken no
\* queue entry in common: the later one asks only for keys pushed after the
\* earlier one started.
NoInterleaving ==
    \A i, j \in 1..Len(flights) :
        i < j => \A a \in 1..Len(flights[i].fns) : \A b \in 1..Len(flights[j].fns) :
                     flights[i].fns[a] # flights[j].fns[b]

\* C23 as stated: a key that is in the cache stays in it, and its entry is
\* never replaced.
CacheWriteOnce ==
    [][\A k \in DOMAIN cache : k \in DOMAIN cache' /\ cache'[k] = cache[k]]_vars

\* is k the key of one of docs, or of the edition that one of them embeds
KeyOfDocs(docs, k) ==
    \E d \in 1..Len(docs) :
        \/ docs[d].key = k
        \/ /\ docs[d].type = "work"
           /\ Len(docs[d].editions.docs) > 0
           /\ docs[d].editions.docs[1].key = k

\* C23 amended: a key that is in the cache stays in it, and its entry is
\* replaced only by a render() call none of whose requests failed and whose
\* responses have a document of that key (or a work that embeds the edition
\* of that key): the last write wins.
CacheKeysPersist ==
    [][\A k \in DOMAIN cache :
          /\ k \in DOMAIN cache'
          /\ cache'[k] # cache[k] =>
                 /\ lastEnded'.ended
                 /\ lastEnded'.failed \notin {"work", "edition", "author"}
                 /\ KeyOfDocs(lastEnded'.docs, k)]_vars

\* C23 witness: a render function was called with the work as an earlier
\* render() had cached it, and a later render() call, which asked for an
\* edition only and was returned the work, has just replaced that entry
CacheKeysPersistWitness ==
    /\ flights = <<>>
    /\ lastEnded.ended /\ lastEnded.ok
    /\ lastEnded.issued = <<"edition">>
    /\ KeyOfDocs(lastEnded.docs, WorkKey)
    /\ \E fn \in Calls :
           /\ reqs[fn].key = WorkKey
           /\ delivered[fn] # <<>>
           /\ delivered[fn][1].value # Undefined
           /\ delivered[fn][1].value # cache[WorkKey]

\* C24: every thing is cached under its own key, for an author the key with
\* the prefix /authors/; and when a render() call that was returned the
\* author ends, every entry of the author key that it finds in the queue has
\* its render function called with the author, not with undefined.
CanonicalKeys ==
    /\ \A k \in DOMAIN cache :
           /\ cache[k].key = k
           /\ cache[k].type = DomainOf(k)
    /\ (/\ lastEnded.ended /\ lastEnded.ok
        /\ \E d \in 1..Len(lastEnded.docs) : lastEnded.docs[d].type = "author")
       => /\ AuthorKey \in DOMAIN cache
          /\ \A i \in 1..Len(lastEnded.rendered) :
                 LET fn == lastEnded.rendered[i] IN
                 reqs[fn].key = AuthorKey =>
                     /\ delivered[fn] # <<>>
                     /\ delivered[fn][Len(delivered[fn])].value = cache[AuthorKey]

\* C24 witness: the author search returned the author under the key OL3A and
\* the render function of the push of /authors/OL3A was called with it
CanonicalKeysWitness ==
    /\ lastEnded.ended /\ lastEnded.ok
    /\ lastEnded.docs = <<PrefixAuthorKey(AuthorDoc)>>
    /\ AuthorDoc.key = <<"OL3A">>
    /\ \E i \in 1..Len(lastEnded.rendered) :
           LET fn == lastEnded.rendered[i] IN
           /\ reqs[fn].key = AuthorKey
           /\ delivered[fn][1].value.type = "author"
           /\ delivered[fn][1].value.key = AuthorKey

\* the number a digit stands for
DigitValue(c) ==
    CASE c = "0" -> 0 [] c = "1" -> 1 [] c = "2" -> 2 [] c = "3" -> 3 [] c = "4" -> 4
      [] c = "5" -> 5 [] c = "6" -> 6 [] c = "7" -> 7 [] c = "8" -> 8 [] c = "9" -> 9

\* the number a string of digits stands for
RECURSIVE NumberOf(_)
NumberOf(str) ==
    IF str = <<>> THEN 0
    ELSE 10 * NumberOf(SubSeq(str, 1, Len(str) - 1)) + DigitValue(str[Len(str)])

\* C25: the validator rejects a value that is a year after this year and
\* accepts the masked years xxxx, 199x and 19xx.
PublishDateNotInFuture ==
    dateResult # "unchecked" =>
        /\ ((\A i \in 1..Len(dateValue) : dateValue[i] \in Digits)
            /\ NumberOf(dateValue) > thisYear)
           => dateResult = "invalid"
        /\ dateValue \in {<<"x", "x", "x", "x">>, <<"1", "9", "9", "x">>,
                          <<"1", "9", "x", "x">>}
           => dateResult = "valid"

\* s in reverse order
RECURSIVE Reverse(_)
Reverse(s) == IF s = <<>> THEN <<>> ELSE Append(Reverse(Tail(s)), Head(s))

\* of the detections d, those of an ISBN (a code that starts with 97) that is
\* not the ISBN of the one before among them
RECURSIVE Accepted(_)
Accepted(d) ==
    IF d = <<>> THEN <<>>
    ELSE LET before == Accepted(SubSeq(d, 1, Len(d) - 1))
             e == d[Len(d)]
         IN  IF /\ StartsWith(e.code, <<"9", "7">>)
                /\ before = <<>> \/ before[Len(before)].code # e.code
             THEN Append(before, e) ELSE before

\* C26: the result strip has one card for every detection of an ISBN other
\* than the ISBN accepted last before it, newest first, and no other;
\* lastResult is the ISBN accepted last, and every redirect was to the page
\* of an accepted ISBN.
OneCardPerRun ==
    LET accepted == Accepted(detected) IN
    /\ strip = Reverse(MapSeq(LAMBDA e : e.code, accepted))
    /\ lastResult = IF accepted = <<>> THEN NoResult ELSE accepted[Len(accepted)].code
    /\ \A n \in 1..Len(navigations) :
           \E a \in 1..Len(accepted) : navigations[n] = <<"/isbn/">> \o accepted[a].code

\* C26 witness: of four detections, an ISBN twice in a row, another ISBN and
\* the first again, the second was ignored: three cards
OneCardPerRunWitness ==
    /\ Len(detected) = 4
    /\ detected[1].code = detected[2].code
    /\ detected[3].code # detected[1].code
    /\ detected[4].code = detected[1].code
    /\ Len(strip) = 3
    /\ strip[1] = strip[3]

\* C27: confirmation_list is empty whenever the handler is not running, and
\* every accepted detection made with #multiple-scan unchecked, the very
\* first included, has set window.location.href to /isbn/<code>.
FirstDetectionRedirects ==
    /\ confirmation_list = <<>>
    /\ navigations =
           MapSeq(LAMBDA e : <<"/isbn/">> \o e.code,
                  SelectSeq(Accepted(detected), LAMBDA e : ~e.multiple))

\* C27 witness: one detection, of an ISBN, with #multiple-scan unchecked, and
\* the page is redirected
FirstDetectionRedirectsWitness ==
    /\ Len(detected) = 1
    /\ ~detected[1].multiple
    /\ navigations = <<IsbnUrl(detected[1].code)>>

\* C28: curSlide is the index of the slide that is shown and of the active
\* dot, and lies in 0..maxSlide-1.
SliderInSync ==
    /\ curSlide \in 0..(maxSlide - 1)
    /\ shown # NoSlide => curSlide = shown /\ activeDot = shown

\* C30: the key Escape, pressed while the card is open, hides the card and
\* the overlay, and never leaves one of the two hidden and the other not.
EscapeCloses ==
    [][cardEvent' = "Escape" =>
          /\ ~cardHidden => cardHidden' /\ overlayHidden'
          /\ cardHidden' = overlayHidden']_cardVars

\* C29: the interval that loadLists started is cancelled once loadLists has
\* run and no call of fetchPartials is waiting for its answer: after the
\* callback when there was a key, and at once when there was none.
AnimationCancelled ==
    (interval # "none" /\ partials # "pending") => interval = "cleared"

====
